---- MODULE Spec2Model ----
(***************************************************************************)
(* A model of jupyterhub/metrics.py: the Prometheus metric registry of the *)
(* hub, the module-load loops that pre-register one series per status      *)
(* value, the request hook prometheus_log_method, and the                  *)
(* PeriodicMetricsCollector (start / update) running on tornado's          *)
(* single-threaded IOLoop.                                                 *)
(*                                                                         *)
(* Control is one thread: pc says which function is executing ("import" is *)
(* module load, "loop" is the IOLoop between callbacks, "start" and        *)
(* "update" are the collector's methods) and ip is the index of the next   *)
(* statement of that function.  Time is counted in days.                   *)
(***************************************************************************)
EXTENDS Integers, Sequences, FiniteSets, TLC

VARIABLES
    pc,                     \* "import" | "loop" | "start" | "update"
    ip,                     \* index of the next statement of start() / update()
    caller,                 \* who called update(): "none" | "start" | "timer"
    enabled,                \* PeriodicMetricsCollector.active_users_metrics_enabled
    timers,                 \* number of started PeriodicCallback objects
    starts,                 \* number of start() calls made by the host so far
    now,                    \* the wall clock that datetime.now() reads
    db,                     \* orm.User rows: user -> last_activity (Absent: no row)
    locals,                 \* local variables of the running update()
    DAILY_ACTIVE_USERS,     \* gauge value
    MONTHLY_ACTIVE_USERS,   \* gauge value
    startState,             \* history of the current / last start() call
    cycle,                  \* history of the current / last update() cycle
                            \* (see NoCycle)
    queried,                \* TRUE once the collector has issued a query
    scrape,                 \* what the exporter last read from the two gauges
    REQUEST_DURATION_SECONDS, \* histogram children: label tuple -> [count, sum]
    status_hist,            \* the five status-labelled histograms: name -> children
    hook,                   \* history of the last prometheus_log_method call
    poll,                   \* history of the last poll classification
    events                  \* number of observations handed to the registry

vars == <<pc, ip, caller, enabled, timers, starts, now, db, locals,
          DAILY_ACTIVE_USERS, MONTHLY_ACTIVE_USERS, startState, cycle, queried,
          scrape, REQUEST_DURATION_SECONDS, status_hist, hook, poll, events>>

collectorVars == <<caller, enabled, timers, starts, now, db, locals,
                   DAILY_ACTIVE_USERS, MONTHLY_ACTIVE_USERS, startState, cycle,
                   queried>>

registryVars == <<REQUEST_DURATION_SECONDS, status_hist, hook, poll, events>>

----------------------------------------------------------------------------
(* Bounds of the model.                                                    *)

\* the clock advances at most this many days past its initial value
MaxElapsed == 2

\* the host calls start() at most this many times
MaxStarts == 2

\* at most this many observations are handed to the registry
MaxEvents == 2

----------------------------------------------------------------------------
(* The clock and the user table.  Time is counted in days and the clock is *)
(* read at that resolution: a drift of 1 between the two datetime.now()    *)
(* calls of update() stands for the second call returning a later instant  *)
(* than the first.                                                         *)

\* timedelta(days=1)
DailyDays == 1

\* timedelta(days=30)
MonthlyDays == 30

Users == {"u1", "u2"}

\* db[u] = Absent: orm.User holds no row for u
Absent == -1

StartTime == MonthlyDays + DailyDays

MaxNow == StartTime + MaxElapsed

\* last_activity of the rows present when the hub starts: exactly on the
\* monthly cutoff, exactly on the daily cutoff
InitialActivity == {Absent, StartTime - MonthlyDays, StartTime - DailyDays}

\* how far the clock may move between the two datetime.now() calls of update()
ClockDrifts == {0, 1}

\* faulty variant: the filter last_activity <= cutoff
CountInactiveSince(table, cutoff) ==
    Cardinality({u \in Users : table[u] # Absent /\ table[u] <= cutoff})

\* db.query(orm.User).filter(orm.User.last_activity >= cutoff).count()
CountActiveSince(table, cutoff) ==
    Cardinality({u \in Users : table[u] # Absent /\ table[u] >= cutoff})

\* a query either returns its count or raises (connectivity error)
QueryOutcomes == {"ok", "error"}

----------------------------------------------------------------------------
(* The statements of PeriodicMetricsCollector.start and .update, in source *)
(* order.                                                                  *)

\* faulty variant: the immediate update() first, the timer afterwards
StartUpdateFirst == <<"update", "arm">>

\* faulty variant: the timer only, no immediate update()
StartNoUpdate == <<"arm">>

\* start(), inside "if self.active_users_metrics_enabled:":
\* pc = PeriodicCallback(...); pc.start()  and then  self.update()
StartSteps == <<"arm", "update">>

\* faulty variant: the daily gauge is set before the monthly query is made
UpdatePublishDailyEarly ==
    <<"cutoffs", "query_daily", "set_daily", "query_monthly", "set_monthly", "log">>

\* update(): the two cutoffs, the two count queries, the two Gauge.set calls,
\* the two log.info calls
UpdateSteps ==
    <<"cutoffs", "query_daily", "query_monthly", "set_daily", "set_monthly", "log">>

\* faulty variant: update() yields to the IOLoop between the two set calls
SuspendBetweenSets == {"set_monthly"}

\* statements of update() at which it hands control back to the IOLoop
\* (update is a plain function: it awaits nothing)
SuspensionPoints == {}

\* another callback of the IOLoop (a request, the exporter) can run
TaskCanRun ==
    \/ pc = "loop"
    \/ pc = "update" /\ ip <= Len(UpdateSteps) /\ UpdateSteps[ip] \in SuspensionPoints

AtUpdateStep(s) == pc = "update" /\ ip <= Len(UpdateSteps) /\ UpdateSteps[ip] = s

\* faulty variant: the if-body runs whatever the flag says
AtStartStepIgnoringFlag(s) ==
    pc = "start" /\ ip <= Len(StartSteps) /\ StartSteps[ip] = s

\* start() stands at statement s of its if-body, which it enters only with
\* the flag set
AtStartStep(s) ==
    pc = "start" /\ enabled /\ ip <= Len(StartSteps) /\ StartSteps[ip] = s

NoLocals ==
    [daily_cutoff |-> Absent, monthly_cutoff |-> Absent,
     daily_active_users |-> Absent, monthly_active_users |-> Absent]

\* the record of the running or last update() call: who made it, how far it
\* came, the two clock reads it took (kept after a successful return for as
\* long as neither the clock nor the table has moved), whether the table was
\* written between its queries, and the clock reads of the successful call
\* that it follows immediately, if there is one
NoCycle ==
    [outcome |-> "none", by |-> "none", queries |-> 0,
     wroteDaily |-> FALSE, wroteMonthly |-> FALSE,
     read1 |-> Absent, read2 |-> Absent, touched |-> FALSE,
     prev1 |-> Absent, prev2 |-> Absent]

NoStart ==
    [outcome |-> "none", step |-> 1, armed |-> FALSE, updates |-> 0,
     queries |-> 0, sets |-> 0]

----------------------------------------------------------------------------
(* PeriodicMetricsCollector.start                                          *)

\* the host calls collector.start() from the IOLoop thread
StartCall ==
    /\ pc = "loop"
    /\ starts < MaxStarts
    /\ starts' = starts + 1
    /\ pc' = "start"
    /\ ip' = 1
    /\ startState' = [NoStart EXCEPT !.outcome = "running"]
    /\ UNCHANGED <<caller, enabled, timers, now, db, locals, DAILY_ACTIVE_USERS,
                   MONTHLY_ACTIVE_USERS, cycle, queried, scrape>>
    /\ UNCHANGED registryVars

\* pc = PeriodicCallback(self.update, period * 1000, jitter=0.01); pc.start()
StartArm ==
    /\ AtStartStep("arm")
    /\ timers' = timers + 1
    /\ ip' = ip + 1
    /\ startState' = [startState EXCEPT !.armed = TRUE]
    /\ UNCHANGED <<pc, caller, enabled, starts, now, db, locals, DAILY_ACTIVE_USERS,
                   MONTHLY_ACTIVE_USERS, cycle, queried, scrape>>
    /\ UNCHANGED registryVars

\* self.update(): a plain synchronous call; start() resumes at the next
\* statement when it returns
StartUpdate ==
    /\ AtStartStep("update")
    /\ pc' = "update"
    /\ ip' = 1
    /\ caller' = "start"
    /\ startState' = [startState EXCEPT !.step = ip + 1, !.updates = @ + 1]
    /\ UNCHANGED <<enabled, timers, starts, now, db, locals, DAILY_ACTIVE_USERS,
                   MONTHLY_ACTIVE_USERS, cycle, queried, scrape>>
    /\ UNCHANGED registryVars

\* start() falls off its end: the flag is off, or the if-body is done
StartReturn ==
    /\ pc = "start"
    /\ ~enabled \/ ip > Len(StartSteps)
    /\ pc' = "loop"
    /\ ip' = 1
    /\ startState' = [startState EXCEPT !.outcome = "returned"]
    /\ UNCHANGED <<caller, enabled, timers, starts, now, db, locals,
                   DAILY_ACTIVE_USERS, MONTHLY_ACTIVE_USERS, cycle, queried, scrape>>
    /\ UNCHANGED registryVars

----------------------------------------------------------------------------
(* The repeating timer.  tornado's PeriodicCallback runs its callback from *)
(* the IOLoop, logs an exception the callback raises, and schedules the    *)
(* next run whatever the outcome.                                          *)

\* faulty variant: a one-shot timeout, gone once it has fired
TimerFireOneShot ==
    /\ pc = "loop"
    /\ timers >= 1
    /\ timers' = timers - 1
    /\ pc' = "update"
    /\ ip' = 1
    /\ caller' = "timer"
    /\ UNCHANGED <<enabled, starts, now, db, locals, DAILY_ACTIVE_USERS,
                   MONTHLY_ACTIVE_USERS, startState, cycle, queried, scrape>>
    /\ UNCHANGED registryVars

TimerFire ==
    /\ pc = "loop"
    /\ timers >= 1
    /\ pc' = "update"
    /\ ip' = 1
    /\ caller' = "timer"
    /\ UNCHANGED <<enabled, timers, starts, now, db, locals, DAILY_ACTIVE_USERS,
                   MONTHLY_ACTIVE_USERS, startState, cycle, queried, scrape>>
    /\ UNCHANGED registryVars

----------------------------------------------------------------------------
(* PeriodicMetricsCollector.update                                         *)

\* an exception leaves update(): out of start() to the host when start()
\* made the call, into PeriodicCallback's handler when the timer made it
Raised(c, q) ==
    /\ pc' = "loop"
    /\ ip' = 1
    /\ caller' = "none"
    /\ locals' = NoLocals
    /\ cycle' = [c EXCEPT !.outcome = "raised", !.queries = q,
                          !.read1 = Absent, !.read2 = Absent, !.touched = FALSE,
                          !.prev1 = Absent, !.prev2 = Absent]
    /\ startState' = IF caller = "start"
                     THEN [startState EXCEPT !.outcome = "raised",
                                             !.queries = @ + 1]
                     ELSE startState

\* daily_cutoff = datetime.now() - timedelta(days=1)
\* monthly_cutoff = datetime.now() - timedelta(days=30)
UpdateCutoffs ==
    /\ AtUpdateStep("cutoffs")
    /\ \E drift \in ClockDrifts :
        /\ now + drift <= MaxNow
        /\ now' = now + drift
        /\ locals' = [NoLocals EXCEPT !.daily_cutoff = now - DailyDays,
                                      !.monthly_cutoff = (now + drift) - MonthlyDays]
        /\ cycle' = [NoCycle EXCEPT !.outcome = "running", !.by = caller,
                                    !.read1 = now, !.read2 = now + drift,
                                    !.prev1 = cycle.read1, !.prev2 = cycle.read2]
    /\ ip' = ip + 1
    /\ UNCHANGED <<pc, caller, enabled, timers, starts, db, DAILY_ACTIVE_USERS,
                   MONTHLY_ACTIVE_USERS, startState, queried, scrape>>
    /\ UNCHANGED registryVars

\* daily_active_users = self.db.query(orm.User).filter(
\*     orm.User.last_activity >= daily_cutoff).count()
QueryDaily ==
    /\ AtUpdateStep("query_daily")
    /\ queried' = TRUE
    /\ \E result \in QueryOutcomes :
        IF result = "ok"
        THEN /\ locals' = [locals EXCEPT !.daily_active_users =
                                CountActiveSince(db, locals.daily_cutoff)]
             /\ cycle' = [cycle EXCEPT !.queries = @ + 1]
             /\ startState' = IF caller = "start"
                              THEN [startState EXCEPT !.queries = @ + 1]
                              ELSE startState
             /\ ip' = ip + 1
             /\ UNCHANGED <<pc, caller>>
        ELSE Raised(cycle, cycle.queries + 1)
    /\ UNCHANGED <<enabled, timers, starts, now, db, DAILY_ACTIVE_USERS,
                   MONTHLY_ACTIVE_USERS, scrape>>
    /\ UNCHANGED registryVars

\* monthly_active_users = self.db.query(orm.User).filter(
\*     orm.User.last_activity >= monthly_cutoff).count()
QueryMonthly ==
    /\ AtUpdateStep("query_monthly")
    /\ queried' = TRUE
    /\ \E result \in QueryOutcomes :
        IF result = "ok"
        THEN /\ locals' = [locals EXCEPT !.monthly_active_users =
                                CountActiveSince(db, locals.monthly_cutoff)]
             /\ cycle' = [cycle EXCEPT !.queries = @ + 1]
             /\ startState' = IF caller = "start"
                              THEN [startState EXCEPT !.queries = @ + 1]
                              ELSE startState
             /\ ip' = ip + 1
             /\ UNCHANGED <<pc, caller>>
        ELSE Raised(cycle, cycle.queries + 1)
    /\ UNCHANGED <<enabled, timers, starts, now, db, DAILY_ACTIVE_USERS,
                   MONTHLY_ACTIVE_USERS, scrape>>
    /\ UNCHANGED registryVars

\* faulty variant: Gauge.inc instead of Gauge.set
SetDailyInc ==
    /\ AtUpdateStep("set_daily")
    /\ DAILY_ACTIVE_USERS' = DAILY_ACTIVE_USERS + locals.daily_active_users
    /\ cycle' = [cycle EXCEPT !.wroteDaily = TRUE]
    /\ startState' = IF caller = "start"
                     THEN [startState EXCEPT !.sets = @ + 1]
                     ELSE startState
    /\ ip' = ip + 1
    /\ UNCHANGED <<pc, caller, enabled, timers, starts, now, db, locals,
                   MONTHLY_ACTIVE_USERS, queried, scrape>>
    /\ UNCHANGED registryVars

\* DAILY_ACTIVE_USERS.set(daily_active_users)
SetDaily ==
    /\ AtUpdateStep("set_daily")
    /\ DAILY_ACTIVE_USERS' = locals.daily_active_users
    /\ cycle' = [cycle EXCEPT !.wroteDaily = TRUE]
    /\ startState' = IF caller = "start"
                     THEN [startState EXCEPT !.sets = @ + 1]
                     ELSE startState
    /\ ip' = ip + 1
    /\ UNCHANGED <<pc, caller, enabled, timers, starts, now, db, locals,
                   MONTHLY_ACTIVE_USERS, queried, scrape>>
    /\ UNCHANGED registryVars

\* MONTHLY_ACTIVE_USERS.set(monthly_active_users)
SetMonthly ==
    /\ AtUpdateStep("set_monthly")
    /\ MONTHLY_ACTIVE_USERS' = locals.monthly_active_users
    /\ cycle' = [cycle EXCEPT !.wroteMonthly = TRUE]
    /\ startState' = IF caller = "start"
                     THEN [startState EXCEPT !.sets = @ + 1]
                     ELSE startState
    /\ ip' = ip + 1
    /\ UNCHANGED <<pc, caller, enabled, timers, starts, now, db, locals,
                   DAILY_ACTIVE_USERS, queried, scrape>>
    /\ UNCHANGED registryVars

\* the two self.log.info(...) calls: nothing of the state changes
UpdateLog ==
    /\ AtUpdateStep("log")
    /\ ip' = ip + 1
    /\ UNCHANGED <<pc, caller, enabled, timers, starts, now, db, locals,
                   DAILY_ACTIVE_USERS, MONTHLY_ACTIVE_USERS, startState, cycle,
                   queried, scrape>>
    /\ UNCHANGED registryVars

\* update() falls off its end and its caller resumes
UpdateReturn ==
    /\ pc = "update"
    /\ ip > Len(UpdateSteps)
    /\ cycle' = [cycle EXCEPT !.outcome = "ok",
                              !.read1 = IF cycle.touched THEN Absent ELSE @,
                              !.read2 = IF cycle.touched THEN Absent ELSE @,
                              !.touched = FALSE,
                              !.prev1 = Absent, !.prev2 = Absent]
    /\ locals' = NoLocals
    /\ caller' = "none"
    /\ IF caller = "start"
       THEN pc' = "start" /\ ip' = startState.step
       ELSE pc' = "loop" /\ ip' = 1
    /\ UNCHANGED <<enabled, timers, starts, now, db, DAILY_ACTIVE_USERS,
                   MONTHLY_ACTIVE_USERS, startState, queried, scrape>>
    /\ UNCHANGED registryVars

----------------------------------------------------------------------------
(* The environment of the collector: time passes, other writers touch the  *)
(* user table, the exporter reads the registry.                            *)

\* a day passes while the IOLoop is between callbacks
AdvanceClock ==
    /\ pc = "loop"
    /\ now < MaxNow
    /\ now' = now + 1
    /\ cycle' = [cycle EXCEPT !.read1 = Absent, !.read2 = Absent]
    /\ UNCHANGED <<pc, ip, caller, enabled, timers, starts, db, locals,
                   DAILY_ACTIVE_USERS, MONTHLY_ACTIVE_USERS, startState,
                   queried, scrape>>
    /\ UNCHANGED registryVars

\* a writer of the persistence layer stamps user u's last_activity with the
\* current time: between two callbacks of the IOLoop, or (another session of
\* the database) between the two queries of one update()
RecordActivity ==
    /\ pc = "loop" \/ AtUpdateStep("query_monthly")
    /\ \E u \in Users :
        /\ db[u] # now
        /\ db' = [db EXCEPT ![u] = now]
    /\ cycle' = IF pc = "update"
                THEN [cycle EXCEPT !.touched = TRUE]
                ELSE [cycle EXCEPT !.read1 = Absent, !.read2 = Absent]
    /\ UNCHANGED <<pc, ip, caller, enabled, timers, starts, now, locals,
                   DAILY_ACTIVE_USERS, MONTHLY_ACTIVE_USERS, startState, queried,
                   scrape>>
    /\ UNCHANGED registryVars

\* a writer of the persistence layer deletes user u: between two callbacks
\* of the IOLoop, or (another session of the database) between the two
\* queries of one update()
DeleteUser ==
    /\ pc = "loop" \/ AtUpdateStep("query_monthly")
    /\ \E u \in Users :
        /\ db[u] # Absent
        /\ db' = [db EXCEPT ![u] = Absent]
    /\ cycle' = IF pc = "update"
                THEN [cycle EXCEPT !.touched = TRUE]
                ELSE [cycle EXCEPT !.read1 = Absent, !.read2 = Absent]
    /\ UNCHANGED <<pc, ip, caller, enabled, timers, starts, now, locals,
                   DAILY_ACTIVE_USERS, MONTHLY_ACTIVE_USERS, startState, queried,
                   scrape>>
    /\ UNCHANGED registryVars

\* the exporter enumerates the registry and reads both gauges; torn records
\* that one of them was written by the running cycle and the other was not
Scrape ==
    /\ TaskCanRun
    /\ scrape' = [daily |-> DAILY_ACTIVE_USERS, monthly |-> MONTHLY_ACTIVE_USERS,
                  torn |-> cycle.wroteDaily # cycle.wroteMonthly]
    /\ UNCHANGED <<pc, ip>>
    /\ UNCHANGED collectorVars
    /\ UNCHANGED registryVars

----------------------------------------------------------------------------
(* The status enumerations and the series created at module load.          *)

Member(c, n, v) == [cls |-> c, name |-> n, value |-> v]

ServerSpawnStatus ==
    {Member("ServerSpawnStatus", "success", "success"),
     Member("ServerSpawnStatus", "failure", "failure"),
     Member("ServerSpawnStatus", "already_pending", "already-pending"),
     Member("ServerSpawnStatus", "throttled", "throttled"),
     Member("ServerSpawnStatus", "too_many_users", "too-many-users")}

ProxyAddStatus ==
    {Member("ProxyAddStatus", "success", "success"),
     Member("ProxyAddStatus", "failure", "failure")}

ServerPollStatus ==
    {Member("ServerPollStatus", "running", "running"),
     Member("ServerPollStatus", "stopped", "stopped")}

ServerStopStatus ==
    {Member("ServerStopStatus", "success", "success"),
     Member("ServerStopStatus", "failure", "failure")}

ProxyDeleteStatus ==
    {Member("ProxyDeleteStatus", "success", "success"),
     Member("ProxyDeleteStatus", "failure", "failure")}

\* the enum classes that define __str__ to return self.value
DefinesStr ==
    {"ServerSpawnStatus", "ProxyAddStatus", "ServerStopStatus", "ProxyDeleteStatus"}

\* str(member), which prometheus_client applies to every label value:
\* Enum's own __str__ gives "Class.name"
Str(member) ==
    IF member.cls \in DefinesStr
    THEN member.value
    ELSE member.cls \o "." \o member.name

StatusMetrics ==
    {"SERVER_SPAWN_DURATION_SECONDS", "PROXY_ADD_DURATION_SECONDS",
     "SERVER_POLL_DURATION_SECONDS", "SERVER_STOP_DURATION_SECONDS",
     "PROXY_DELETE_DURATION_SECONDS"}

\* the enum whose members label metric m
StatusEnum(m) ==
    CASE m = "SERVER_SPAWN_DURATION_SECONDS" -> ServerSpawnStatus
      [] m = "PROXY_ADD_DURATION_SECONDS" -> ProxyAddStatus
      [] m = "SERVER_POLL_DURATION_SECONDS" -> ServerPollStatus
      [] m = "SERVER_STOP_DURATION_SECONDS" -> ServerStopStatus
      [] m = "PROXY_DELETE_DURATION_SECONDS" -> ProxyDeleteStatus

\* a histogram child with nothing observed
EmptyChild == [count |-> 0, sum |-> 0]

NoChildren == [k \in {} |-> EmptyChild]

\* Histogram.labels(...): the child of that label tuple, created empty when
\* there is none yet
WithChild(children, key) ==
    IF key \in DOMAIN children THEN children ELSE (key :> EmptyChild) @@ children

\* Histogram.labels(...).observe(amount)
Observed(children, key, amount) ==
    LET c == WithChild(children, key)
    IN  [c EXCEPT ![key] = [count |-> @.count + 1, sum |-> @.sum + amount]]

\* faulty variant: no series is created at module load
PreregisterNothing(m) == NoChildren

\* "for s in <Enum>: <METRIC>.labels(status=s)", for metric m
Preregister(m) == [l \in {Str(s) : s \in StatusEnum(m)} |-> EmptyChild]

\* importing the module: the metrics are defined and the five loops run
ModuleLoad ==
    /\ pc = "import"
    /\ pc' = "loop"
    /\ REQUEST_DURATION_SECONDS' = NoChildren
    /\ status_hist' = [m \in StatusMetrics |-> Preregister(m)]
    /\ UNCHANGED <<ip, scrape, hook, poll, events>>
    /\ UNCHANGED collectorVars

----------------------------------------------------------------------------
(* ServerPollStatus.from_status and the events recorded by the rest of the *)
(* hub.                                                                    *)

PyNone == [kind |-> "None", v |-> 0]

PyInt(i) == [kind |-> "int", v |-> i]

\* what Spawner.poll() returns: None while the server runs, else an exit code
PollStatuses == {PyNone, PyInt(0), PyInt(1)}

running == Member("ServerPollStatus", "running", "running")

stopped == Member("ServerPollStatus", "stopped", "stopped")

\* faulty variant: "if not status" in place of "if status is None"
from_status_truthiness(status) ==
    IF status.kind = "None" \/ status.v = 0 THEN running ELSE stopped

\* ServerPollStatus.from_status(status)
from_status(status) ==
    IF status.kind = "None" THEN running ELSE stopped

Durations == {1, 3}

\* a poll ends: SERVER_POLL_DURATION_SECONDS.labels(
\*     status=ServerPollStatus.from_status(status)).observe(duration)
PollObserve ==
    /\ TaskCanRun
    /\ events < MaxEvents
    /\ events' = events + 1
    /\ \E status \in PollStatuses, d \in Durations :
        /\ poll' = [n |-> poll.n + 1, status |-> status,
                    result |-> from_status(status)]
        /\ status_hist' =
             [status_hist EXCEPT !["SERVER_POLL_DURATION_SECONDS"] =
                 Observed(@, Str(from_status(status)), d)]
    /\ UNCHANGED <<pc, ip, scrape, REQUEST_DURATION_SECONDS, hook>>
    /\ UNCHANGED collectorVars

\* a spawn, stop or proxy operation ends:
\* <METRIC>.labels(status=<Enum>.<member>).observe(duration)
ObserveStatus ==
    /\ TaskCanRun
    /\ events < MaxEvents
    /\ events' = events + 1
    /\ \E m \in StatusMetrics \ {"SERVER_POLL_DURATION_SECONDS"}, d \in Durations :
        \E s \in StatusEnum(m) :
            status_hist' = [status_hist EXCEPT ![m] = Observed(@, Str(s), d)]
    /\ UNCHANGED <<pc, ip, scrape, REQUEST_DURATION_SECONDS, hook, poll>>
    /\ UNCHANGED collectorVars

\* label values that no status enum declares
OtherStatuses == {"timeout"}

\* a caller hands a histogram a status that is no member of its enum, as a
\* plain string: <METRIC>.labels(status="timeout").observe(duration);
\* labels() makes a child for every label value it has not seen
ObserveOtherStatus ==
    /\ TaskCanRun
    /\ events < MaxEvents
    /\ events' = events + 1
    /\ \E m \in StatusMetrics, label \in OtherStatuses, d \in Durations :
        status_hist' = [status_hist EXCEPT ![m] = Observed(@, label, d)]
    /\ UNCHANGED <<pc, ip, scrape, REQUEST_DURATION_SECONDS, hook, poll>>
    /\ UNCHANGED collectorVars

----------------------------------------------------------------------------
(* prometheus_log_method(handler)                                          *)

Methods == {"GET", "POST"}

\* type(handler): its __module__ and its __name__
HandlerClasses ==
    {[module |-> "jupyterhub.handlers.pages", name |-> "HomeHandler"],
     [module |-> "jupyterhub.apihandlers.users", name |-> "UserAPIHandler"]}

Codes == {200, 404}

Paths == {"/hub/home", "/hub/api/users"}

\* an attribute read or a call on the handler gives a value or raises
Value(x) == [kind |-> "value", v |-> x]

Raises == [kind |-> "raises"]

\* request_time() may also hand back something that is no number
NotANumber == [kind |-> "none"]

\* the request contexts tornado may hand to the hook
Handlers ==
    [method : {Value(m) : m \in Methods} \cup {Raises},
     class : HandlerClasses,
     path : Paths,
     status : {Value(c) : c \in Codes} \cup {Raises},
     request_time : {Value(d) : d \in Durations} \cup {Raises, NotANumber}]

\* faulty variant: the URL path of the request as the handler label
HandlerLabelWithPath(handler) == handler.path

\* f'{handler.__class__.__module__}.{type(handler).__name__}'
HandlerLabel(handler) == handler.class.module \o "." \o handler.class.name

\* the label tuple (method, handler, code); prometheus_client keeps str() of
\* each label value
RequestLabels(handler) ==
    <<handler.method.v, HandlerLabel(handler), ToString(handler.status.v)>>

\* faulty variant: the duration is observed twice
LogObservedTwice(children, handler) ==
    IF handler.method.kind = "raises" \/ handler.status.kind = "raises"
    THEN children
    ELSE IF handler.request_time.kind # "value"
    THEN WithChild(children, RequestLabels(handler))
    ELSE Observed(Observed(children, RequestLabels(handler), handler.request_time.v),
                  RequestLabels(handler), handler.request_time.v)

\* the value of REQUEST_DURATION_SECONDS after
\*   REQUEST_DURATION_SECONDS.labels(method=..., handler=..., code=...)
\*       .observe(handler.request.request_time())
\* Python evaluates the three label arguments, then labels(), then
\* request_time(), then observe(); whichever raises ends the call there.
LogObserved(children, handler) ==
    IF handler.method.kind = "raises" \/ handler.status.kind = "raises"
    THEN children
    ELSE IF handler.request_time.kind # "value"
    THEN WithChild(children, RequestLabels(handler))
    ELSE Observed(children, RequestLabels(handler), handler.request_time.v)

\* whether the call returns or an exception leaves it (nothing in the
\* function catches one)
LogOutcome(handler) ==
    IF \/ handler.method.kind = "raises"
       \/ handler.status.kind = "raises"
       \/ handler.request_time.kind # "value"
    THEN "raised"
    ELSE "returned"

\* tornado calls the log function at the end of a request
LogRequest ==
    /\ TaskCanRun
    /\ events < MaxEvents
    /\ events' = events + 1
    /\ \E handler \in Handlers :
        /\ REQUEST_DURATION_SECONDS' = LogObserved(REQUEST_DURATION_SECONDS, handler)
        /\ hook' = [n |-> hook.n + 1, outcome |-> LogOutcome(handler),
                    handler |-> handler]
    /\ UNCHANGED <<pc, ip, scrape, status_hist, poll>>
    /\ UNCHANGED collectorVars

----------------------------------------------------------------------------
(* The specifications.                                                     *)

NoHandler ==
    [method |-> Raises, class |-> [module |-> "", name |-> ""], path |-> "",
     status |-> Raises, request_time |-> Raises]

\* the interpreter is about to import jupyterhub.metrics; enabled is what the
\* configuration gives the collector, db the table its database handle reads
Init ==
    /\ pc = "import"
    /\ ip = 1
    /\ caller = "none"
    /\ enabled \in BOOLEAN
    /\ timers = 0
    /\ starts = 0
    /\ now = StartTime
    /\ db \in [Users -> InitialActivity]
    /\ locals = NoLocals
    /\ DAILY_ACTIVE_USERS = 0
    /\ MONTHLY_ACTIVE_USERS = 0
    /\ startState = NoStart
    /\ cycle = NoCycle
    /\ queried = FALSE
    /\ scrape = [daily |-> 0, monthly |-> 0, torn |-> FALSE]
    /\ REQUEST_DURATION_SECONDS = NoChildren
    /\ status_hist = [m \in StatusMetrics |-> NoChildren]
    /\ hook = [n |-> 0, outcome |-> "none", handler |-> NoHandler]
    /\ poll = [n |-> 0, status |-> PyNone, result |-> running]
    /\ events = 0

\* the collector with its timer, the clock, the user table and the exporter
Next ==
    \/ ModuleLoad
    \/ StartCall
    \/ StartArm
    \/ StartUpdate
    \/ StartReturn
    \/ TimerFire
    \/ UpdateCutoffs
    \/ QueryDaily
    \/ QueryMonthly
    \/ SetDaily
    \/ SetMonthly
    \/ UpdateLog
    \/ UpdateReturn
    \/ AdvanceClock
    \/ RecordActivity
    \/ Scrape

Spec == Init /\ [][Next]_vars

\* the IOLoop keeps running a started PeriodicCallback, and a function that
\* has been called runs on to its return or to the exception that ends it
Fairness ==
    /\ WF_vars(TimerFire)
    /\ WF_vars(StartArm \/ StartUpdate \/ StartReturn)
    /\ WF_vars(UpdateCutoffs \/ QueryDaily \/ QueryMonthly \/ SetDaily \/ SetMonthly
               \/ UpdateLog \/ UpdateReturn)

FairSpec == Spec /\ Fairness

\* the collector beside the writers of the user table, deletions included,
\* under the IOLoop's scheduling; the exporter is left out
WritersNext ==
    \/ ModuleLoad
    \/ StartCall
    \/ StartArm
    \/ StartUpdate
    \/ StartReturn
    \/ TimerFire
    \/ UpdateCutoffs
    \/ QueryDaily
    \/ QueryMonthly
    \/ SetDaily
    \/ SetMonthly
    \/ UpdateLog
    \/ UpdateReturn
    \/ AdvanceClock
    \/ RecordActivity
    \/ DeleteUser

WritersSpec == Init /\ [][WritersNext]_vars /\ Fairness

\* the registry: module load, the request hook and the status-labelled events,
\* in a hub whose collector is never started
RegistryInit == Init /\ ~enabled /\ \A u \in Users : db[u] = Absent

RegistryNext ==
    \/ ModuleLoad
    \/ LogRequest
    \/ PollObserve
    \/ ObserveStatus
    \/ ObserveOtherStatus

RegistrySpec == RegistryInit /\ [][RegistryNext]_vars

----------------------------------------------------------------------------
(* Claims about PeriodicMetricsCollector.start                             *)

\* C1: when the collector is enabled, a start() call that has returned made
\* exactly one update() call, which issued both count queries and set both
\* gauges before start() returned, and a started PeriodicCallback exists.
C1_StartUpdatesOnceThenTimerRuns ==
    (enabled /\ startState.outcome = "returned") =>
        /\ startState.updates = 1
        /\ startState.queries = 2
        /\ startState.sets = 2
        /\ startState.armed
        /\ timers >= 1

\* an enabled start() has returned and its update() published a count
C1_Witness ==
    /\ enabled
    /\ pc = "loop"
    /\ startState.outcome = "returned"
    /\ cycle.by = "start"
    /\ cycle.outcome = "ok"
    /\ MONTHLY_ACTIVE_USERS = 2

\* C2: when the collector is disabled, start() does nothing: no query is ever
\* issued, no timer is ever armed, update() never runs and both gauges keep
\* their initial value, in every state that follows.
C2_DisabledStartIsNoOp ==
    ~enabled =>
        /\ timers = 0
        /\ ~queried
        /\ pc # "update"
        /\ cycle = NoCycle
        /\ startState.updates = 0 /\ ~startState.armed
        /\ DAILY_ACTIVE_USERS = 0
        /\ MONTHLY_ACTIVE_USERS = 0
        /\ ~ENABLED TimerFire

\* a disabled collector whose start() was called twice and returned, over a
\* user table with active users
C2_Witness ==
    /\ ~enabled
    /\ starts = 2
    /\ pc = "loop"
    /\ startState.outcome = "returned"
    /\ CountActiveSince(db, now - DailyDays) = 2

\* the state a failed cycle leaves behind
AfterFailedCycle ==
    (pc = "loop" /\ cycle.outcome = "raised") =>
        /\ cycle.queries \in {1, 2}
        /\ cycle.by \in {"start", "timer"}
        /\ cycle.by = "start" => startState.outcome = "raised"
        /\ locals = NoLocals
        /\ timers >= 1
        /\ ENABLED TimerFire

C10_UpdateBeforeArm == startState.armed => startState.updates >= 1

\* C10, amended: start() arms the timer first and only then makes its
\* immediate update() call; the timer is armed in every state in which that
\* update() has begun, and the states in which the timer is armed and the
\* update() has not begun are inside start(), where no timer callback can run.
C10_ArmBeforeUpdate ==
    /\ startState.updates >= 1 => startState.armed
    /\ (startState.armed /\ startState.updates = 0) =>
            (pc = "start" /\ ~ENABLED TimerFire)

\* start() stands between its two statements
C10_Witness ==
    /\ pc = "start"
    /\ startState.armed
    /\ startState.updates = 0
    /\ timers = 1

----------------------------------------------------------------------------
(* Claims about PeriodicMetricsCollector.update                            *)

\* update() has run its last statement and is about to return
UpdateDone == pc = "update" /\ ip > Len(UpdateSteps)

\* C4: whenever another callback of the IOLoop can run, the running or last
\* update() cycle has written both gauges or neither, so both hold values of
\* the same cycle; the exporter never reads a daily gauge of one cycle beside
\* a monthly gauge of an earlier one.
C4_GaugesPublishedTogether ==
    /\ TaskCanRun => (cycle.wroteDaily = cycle.wroteMonthly)
    /\ ~scrape.torn

\* the exporter has read the gauges after a cycle replaced both values, and
\* the cycle after that one failed on its monthly query
C4_Witness ==
    /\ pc = "loop"
    /\ scrape.daily = 1
    /\ scrape.monthly = 2
    /\ scrape.daily = DAILY_ACTIVE_USERS
    /\ cycle.outcome = "raised"
    /\ cycle.queries = 2

\* C8, as stated: when a successful update() that ran at time now ends (over a
\* user table nobody changed meanwhile), the daily gauge is the number of
\* users with last_activity >= now - 24h and the monthly gauge the number with
\* last_activity >= now - 30d, for one and the same instant now of the cycle.
C8_GaugesCountOneInstant ==
    (UpdateDone /\ ~cycle.touched) =>
        \E t \in cycle.read1 .. cycle.read2 :
            /\ DAILY_ACTIVE_USERS = CountActiveSince(db, t - DailyDays)
            /\ MONTHLY_ACTIVE_USERS = CountActiveSince(db, t - MonthlyDays)

\* what update() does publish: each gauge counts against the cutoff taken from
\* its own clock read, and the earlier values are overwritten
GaugesCountPerClockRead ==
    (UpdateDone /\ ~cycle.touched) =>
        /\ DAILY_ACTIVE_USERS = CountActiveSince(db, cycle.read1 - DailyDays)
        /\ MONTHLY_ACTIVE_USERS = CountActiveSince(db, cycle.read2 - MonthlyDays)

----------------------------------------------------------------------------
(* Claims about the registry                                               *)

\* C5: once the module is loaded, and before any request, event or collector
\* call, each of the five status-labelled histograms holds, for every member
\* of its enum, a series with no observation; the series are there in every
\* state in which a callback can run.
C5_EverySeriesPreregistered ==
    /\ TaskCanRun =>
          \A m \in StatusMetrics : \A s \in StatusEnum(m) :
              Str(s) \in DOMAIN status_hist[m]
    /\ (pc = "loop" /\ events = 0 /\ starts = 0 /\ ~queried) =>
          \A m \in StatusMetrics : \A s \in StatusEnum(m) :
              /\ Str(s) \in DOMAIN status_hist[m]
              /\ status_hist[m][Str(s)].count = 0
              /\ status_hist[m][Str(s)].sum = 0
    /\ pc = "import" =>
          ~(ENABLED LogRequest \/ ENABLED ObserveStatus \/ ENABLED PollObserve
            \/ ENABLED StartCall \/ ENABLED TimerFire)

\* the module has just been loaded
C5_Witness ==
    /\ pc = "loop"
    /\ events = 0
    /\ starts = 0
    /\ Cardinality(DOMAIN status_hist["SERVER_SPAWN_DURATION_SECONDS"]) = 5
    /\ Cardinality(DOMAIN status_hist["SERVER_POLL_DURATION_SECONDS"]) = 2

\* a step of prometheus_log_method
HookStep == hook'.n = hook.n + 1

\* C6, as stated: prometheus_log_method returns normally for every request
\* context, and when a field cannot be extracted it leaves the registry as it
\* was.
C6_HookNeverRaises ==
    [][HookStep =>
        /\ hook'.outcome = "returned"
        /\ (\/ hook'.handler.method.kind # "value"
            \/ hook'.handler.status.kind # "value"
            \/ hook'.handler.request_time.kind # "value") =>
                 REQUEST_DURATION_SECONDS' = REQUEST_DURATION_SECONDS]_vars

\* C7: for a well-formed request (method m, handler type h, code c, elapsed
\* time d) one call of prometheus_log_method adds one observation of value d
\* to the series (m, module.Class of h, str(c)) of the request histogram and
\* changes no other series, no other histogram and neither gauge.
C7_OneObservationInOneSeries ==
    [][(HookStep /\ hook'.handler.method.kind = "value"
                 /\ hook'.handler.status.kind = "value"
                 /\ hook'.handler.request_time.kind = "value") =>
        LET h == hook'.handler
            key == <<h.method.v, h.class.module \o "." \o h.class.name,
                     ToString(h.status.v)>>
            before == IF key \in DOMAIN REQUEST_DURATION_SECONDS
                      THEN REQUEST_DURATION_SECONDS[key]
                      ELSE [count |-> 0, sum |-> 0]
        IN  /\ hook'.outcome = "returned"
            /\ DOMAIN REQUEST_DURATION_SECONDS' =
                   DOMAIN REQUEST_DURATION_SECONDS \cup {key}
            /\ REQUEST_DURATION_SECONDS'[key].count = before.count + 1
            /\ REQUEST_DURATION_SECONDS'[key].sum = before.sum + h.request_time.v
            /\ \A k \in DOMAIN REQUEST_DURATION_SECONDS \ {key} :
                   REQUEST_DURATION_SECONDS'[k] = REQUEST_DURATION_SECONDS[k]
            /\ status_hist' = status_hist
            /\ DAILY_ACTIVE_USERS' = DAILY_ACTIVE_USERS
            /\ MONTHLY_ACTIVE_USERS' = MONTHLY_ACTIVE_USERS]_vars

\* two requests of 3 s and 1 s were recorded in the same series
C7_Witness ==
    /\ hook.n = 2
    /\ hook.outcome = "returned"
    /\ hook.handler.request_time.v = 1
    /\ REQUEST_DURATION_SECONDS[RequestLabels(hook.handler)] =
           [count |-> 2, sum |-> 4]

\* C9: from_status maps every poll status onto running or stopped: running
\* exactly for None, stopped for every other value, exit code 0 included.
C9_FromStatusTotal ==
    poll.n > 0 =>
        /\ poll.result \in ServerPollStatus
        /\ poll.result.name = "running" <=> poll.status.kind = "None"
        /\ poll.status.kind # "None" => poll.result.name = "stopped"

\* a server that exited with code 0 was classified
C9_Witness ==
    /\ poll.n > 0
    /\ poll.status = PyInt(0)
    /\ poll.result.name = "stopped"

----------------------------------------------------------------------------
(* Claims about the lifetime of the timer                                  *)

\* the IOLoop enters update() on a tick of the PeriodicCallback
TimerUpdateBegins == pc = "update" /\ ip = 1 /\ caller = "timer"

\* C11: once start() has armed the timer the collector stays running: no step
\* of the module takes a started timer away, a started timer can fire whenever
\* the IOLoop is idle, and under fairness of the timer update() is entered
\* from the timer again and again, whatever the outcome of earlier cycles
\* (the count of timers never falls, so "no timer yet, or a timer enters
\* update(), infinitely often" says that an armed timer ticks for ever).
C11_ArmedTimerTicksForever ==
    /\ [][timers' >= timers]_vars
    /\ []((timers >= 1 /\ pc = "loop") => ENABLED TimerFire)
    /\ []<>(timers = 0 \/ TimerUpdateBegins)

\* the timer enters update() after a cycle that the timer had started and
\* that failed
C11_Witness ==
    /\ TimerUpdateBegins
    /\ timers >= 1
    /\ cycle.by = "timer"
    /\ cycle.outcome = "raised"

----------------------------------------------------------------------------
(* Claims about repeated update() calls                                    *)

\* the running update() follows a successful update() immediately: the clock
\* was not advanced and the user table was not written since that call began
FollowsSuccessfulCall == pc = "update" /\ cycle.prev1 # Absent /\ ~cycle.touched

\* C12, as stated: an update() call that follows a successful update() call
\* immediately, over an unchanged user table, leaves both gauges with the
\* values the first call published.
C12_UpdateIdempotent ==
    [][FollowsSuccessfulCall =>
          /\ DAILY_ACTIVE_USERS' = DAILY_ACTIVE_USERS
          /\ MONTHLY_ACTIVE_USERS' = MONTHLY_ACTIVE_USERS]_vars

\* C12, amended: the gauges update() publishes are a function of the user
\* table and of its two clock reads; an update() call that follows a
\* successful one over an unchanged user table leaves both gauges with the
\* same values when each of its clock reads returns the instant the
\* corresponding read of the first call returned.
C12_SameReadsSameGauges ==
    [][(FollowsSuccessfulCall /\ cycle.read1 = cycle.prev1
                              /\ cycle.read2 = cycle.prev2) =>
          /\ DAILY_ACTIVE_USERS' = DAILY_ACTIVE_USERS
          /\ MONTHLY_ACTIVE_USERS' = MONTHLY_ACTIVE_USERS]_vars

\* a second update() with the clock reads of the first has set both gauges
\* again, over a table with one user active in the last day and two in the
\* last thirty
C12_Witness ==
    /\ UpdateDone
    /\ FollowsSuccessfulCall
    /\ cycle.read1 = cycle.prev1
    /\ cycle.read2 = cycle.prev2
    /\ cycle.wroteDaily /\ cycle.wroteMonthly
    /\ DAILY_ACTIVE_USERS = 1
    /\ MONTHLY_ACTIVE_USERS = 2

----------------------------------------------------------------------------
(* Claims about the status labels                                          *)

\* the values an enum class declares for its members
DeclaredValues(m) == {s.value : s \in StatusEnum(m)}

\* C13, as stated: once the module is loaded, the status labels of the series
\* of each status-labelled histogram are the values its enum declares:
\* running and stopped for the server-poll histogram, and so on for the
\* other four.
C13_LabelsAreDeclaredValues ==
    (pc = "loop" /\ events = 0) =>
        \A m \in StatusMetrics : DOMAIN status_hist[m] = DeclaredValues(m)

\* what the module does register: the declared values for the four classes
\* that define __str__, and "ServerPollStatus.<name>" for the class that
\* does not
LabelsAreStrOfMembers ==
    (pc = "loop" /\ events = 0) =>
        /\ \A m \in StatusMetrics \ {"SERVER_POLL_DURATION_SECONDS"} :
              DOMAIN status_hist[m] = DeclaredValues(m)
        /\ DOMAIN status_hist["SERVER_POLL_DURATION_SECONDS"] =
              {"ServerPollStatus.running", "ServerPollStatus.stopped"}

----------------------------------------------------------------------------
(* Claims about update() and the other callbacks of the IOLoop             *)

\* update() has come to one of its two count queries and the answer of the
\* database is outstanding
QueryOutstanding == AtUpdateStep("query_daily") \/ AtUpdateStep("query_monthly")

\* C14, as stated: while a count query of an update() cycle is outstanding,
\* the IOLoop can process a request and run its prometheus_log_method call.
C14_RequestsRunDuringQuery == QueryOutstanding => ENABLED LogRequest

\* what the module does: from its first statement to its return or its
\* exception update() keeps the IOLoop, and no request is logged meanwhile
UpdateKeepsTheLoop == pc = "update" => (~TaskCanRun /\ ~ENABLED LogRequest)

----------------------------------------------------------------------------
(* Claims about the cardinality of the request series                      *)

\* the fully-qualified names of the handler types
TypeNames == {c.module \o "." \o c.name : c \in HandlerClasses}

\* the request just logged and the one logged before it agree in method,
\* handler type and response code, and differ in the URL path
SameTypeOtherPath ==
    /\ HookStep
    /\ hook.n >= 1
    /\ hook.handler.method.kind = "value"
    /\ hook.handler.status.kind = "value"
    /\ hook'.handler.method = hook.handler.method
    /\ hook'.handler.status = hook.handler.status
    /\ hook'.handler.class = hook.handler.class
    /\ hook'.handler.path # hook.handler.path

\* C15: every series of the request histogram is labelled with a method, the
\* fully-qualified name of a handler type and a response code, so there are
\* never more series than |methods| x |handler types| x |codes|; and a
\* request that differs from the one before it in the URL path only is
\* recorded in the series of that earlier request, none being added.
C15_SeriesKeyedByHandlerType ==
    /\ [](DOMAIN REQUEST_DURATION_SECONDS \subseteq
             Methods \X TypeNames \X {ToString(c) : c \in Codes})
    /\ [](Cardinality(DOMAIN REQUEST_DURATION_SECONDS) <=
             Cardinality(Methods) * Cardinality(HandlerClasses) * Cardinality(Codes))
    /\ [][SameTypeOtherPath =>
            LET h == hook.handler
                k == <<h.method.v, h.class.module \o "." \o h.class.name,
                       ToString(h.status.v)>>
            IN  /\ k \in DOMAIN REQUEST_DURATION_SECONDS
                /\ DOMAIN REQUEST_DURATION_SECONDS' = DOMAIN REQUEST_DURATION_SECONDS
                /\ hook'.outcome = "returned" =>
                       REQUEST_DURATION_SECONDS'[k].count =
                           REQUEST_DURATION_SECONDS[k].count + 1
                /\ \A j \in DOMAIN REQUEST_DURATION_SECONDS \ {k} :
                       REQUEST_DURATION_SECONDS'[j] = REQUEST_DURATION_SECONDS[j]]_vars

\* two requests for HomeHandler were logged, the second under the path of the
\* users API, and the histogram holds one series with both observations
C15_Witness ==
    /\ hook.n = 2
    /\ hook.outcome = "returned"
    /\ hook.handler.class.name = "HomeHandler"
    /\ hook.handler.path = "/hub/api/users"
    /\ Cardinality(DOMAIN REQUEST_DURATION_SECONDS) = 1
    /\ REQUEST_DURATION_SECONDS[RequestLabels(hook.handler)].count = 2

----------------------------------------------------------------------------
(* Claims about repeated start() calls                                     *)

\* C16, as stated: whatever the number of start() calls on an enabled
\* collector, at most one repeating timer is armed.
C16_AtMostOneTimer == timers <= 1

\* what the module does: every start() call on an enabled collector starts a
\* PeriodicCallback of its own, whether or not its immediate update() fails
EveryStartArmsATimer == (enabled /\ pc = "loop") => timers = starts

----------------------------------------------------------------------------
(* Claims about failed update() cycles                                     *)

\* C17: a gauge is written only by an update() cycle whose two count queries
\* have both succeeded; a cycle in which the daily or the monthly query
\* failed has written neither gauge, and the step on which the exception
\* leaves update() changes neither, so both keep the values of the last
\* successful cycle.
C17_FailedCyclePublishesNothing ==
    /\ [](cycle.outcome = "raised" => (~cycle.wroteDaily /\ ~cycle.wroteMonthly))
    /\ [][(DAILY_ACTIVE_USERS' # DAILY_ACTIVE_USERS
           \/ MONTHLY_ACTIVE_USERS' # MONTHLY_ACTIVE_USERS) =>
              /\ pc = "update"
              /\ cycle.outcome = "running"
              /\ cycle.queries = 2
              /\ cycle'.outcome = "running"]_vars

\* the monthly query failed after the daily query had succeeded, and the
\* daily gauge still shows the count of the cycle before, which is no longer
\* the number of users active in the last day
C17_Witness ==
    /\ pc = "loop"
    /\ cycle.outcome = "raised"
    /\ cycle.by = "timer"
    /\ cycle.queries = 2
    /\ DAILY_ACTIVE_USERS = 1
    /\ MONTHLY_ACTIVE_USERS = 1
    /\ CountActiveSince(db, now - DailyDays) = 2

----------------------------------------------------------------------------
(* Claims about the order of the two gauges                                *)

\* no writer has written the user table between the two queries of the
\* running update() cycle
TableKeptBetweenQueries == ~cycle.touched

\* C18, as stated: when no writer ever writes the user table between the two
\* queries of an update() cycle, the daily gauge is at most the monthly gauge
\* in every state.
C18_DailyAtMostMonthly ==
    []TableKeptBetweenQueries => [](DAILY_ACTIVE_USERS <= MONTHLY_ACTIVE_USERS)

\* C18, amended: when no writer ever writes the user table between the two
\* queries of an update() cycle, the daily gauge is at most the monthly gauge
\* in every state in which another callback of the IOLoop can run, that is
\* outside update(), for all the clock drifts between its two clock reads.
C18_DailyAtMostMonthlyOutsideUpdate ==
    []TableKeptBetweenQueries =>
        [](TaskCanRun => DAILY_ACTIVE_USERS <= MONTHLY_ACTIVE_USERS)

\* a cycle whose two clock reads differ has returned, having published one
\* daily and two monthly users
C18_Witness ==
    /\ pc = "loop"
    /\ cycle.outcome = "ok"
    /\ cycle.read1 # Absent
    /\ cycle.read2 = cycle.read1 + 1
    /\ DAILY_ACTIVE_USERS = 1
    /\ MONTHLY_ACTIVE_USERS = 2

----------------------------------------------------------------------------
(* Claims about the set of status series                                   *)

\* C19, as stated: after any sequence of observations each status-labelled
\* histogram holds exactly the series created at module load; an observation
\* with a status outside the enum adds none.
C19_SeriesSetIsFixed ==
    pc = "loop" =>
        \A m \in StatusMetrics : DOMAIN status_hist[m] = DOMAIN Preregister(m)

\* what the module does: an observation made with a member of the enum lands
\* in a series that exists and adds none; the series made at module load are
\* never removed; an observation with another status adds a series
MemberObservationsKeepSeries ==
    /\ [][(PollObserve \/ ObserveStatus) =>
            \A m \in StatusMetrics :
                DOMAIN status_hist'[m] = DOMAIN status_hist[m]]_vars
    /\ [](pc = "loop" =>
            \A m \in StatusMetrics :
                DOMAIN Preregister(m) \subseteq DOMAIN status_hist[m])

====
